---- MODULE Spec2Model ----
(***************************************************************************)
(* Model of src/bindings/vvisf_bindings.cpp: the VVISFEngine class that    *)
(* the pybind11 module ai_shadermaker_bindings exposes, together with the  *)
(* ValidationResult and ImageData value classes.                           *)
(*                                                                         *)
(* The engine object holds two fields (last_error_, is_initialized_).      *)
(* Every public method is one action.  The variables `call` and `ret`      *)
(* record the most recent host call and what it produced (a returned       *)
(* value, a thrown std::runtime_error, or the process aborting), `handles` *)
(* is the host's ledger of texture ids it was given and gave back, and     *)
(* `alive` says whether the process is still running.                      *)
(*                                                                         *)
(* Heap exhaustion (std::bad_alloc) is not modelled: an allocation of a    *)
(* representable size succeeds.                                            *)
(***************************************************************************)
EXTENDS Integers, Sequences, FiniteSets, TLC

VARIABLES last_error_, is_initialized_, call, ret, handles, alive

engine == <<last_error_, is_initialized_>>
vars == <<last_error_, is_initialized_, call, ret, handles, alive>>

---------------------------------------------------------------------------
(* Bounds of the explored inputs.                                          *)

MaxDim == 4

---------------------------------------------------------------------------
(* C++ int: 32-bit two's complement.                                       *)

INT_MAX == 2147483647
INT_MIN == -INT_MAX - 1

Abs(a) == IF a < 0 THEN -a ELSE a

\* a * b is representable in int (for a, b > INT_MIN): its magnitude is at
\* most INT_MAX, or it is exactly INT_MIN.
MulFits(a, b) ==
    \/ a = 0
    \/ b = 0
    \/ Abs(b) <= INT_MAX \div Abs(a)
    \/ /\ (a < 0) /= (b < 0)
       /\ Abs(a) >= 2
       /\ 2^30 % Abs(a) = 0
       /\ Abs(b) = 2 * (2^30 \div Abs(a))

\* The 16-bit halves of an int: a = Hi16(a) * 2^16 + Lo16(a), both halves in
\* 0 .. 65535 (the upper one taken modulo 2^16).
Lo16(a) == a % 65536
Hi16(a) == (a \div 65536) % 65536

\* For x, y in 0 .. 65535: the low and the next 16 bits of x * y.
MulLo16(x, y) == (((x \div 256) * y % 256) * 256 + (x % 256) * y) % 65536
MulHi16(x, y) ==
    ((x \div 256) * y) \div 256
        + ((((x \div 256) * y) % 256) * 256 + (x % 256) * y) \div 65536

\* a * b reduced modulo 2^32 into [INT_MIN, INT_MAX]: what the imul
\* instruction leaves in the register when the signed product overflows.
MulWrap(a, b) ==
    LET lo == MulLo16(Lo16(a), Lo16(b))
        hi == (MulHi16(Lo16(a), Lo16(b))
                 + MulLo16(Hi16(a), Lo16(b))
                 + MulLo16(Lo16(a), Hi16(b))) % 65536
    IN  (IF hi >= 32768 THEN hi - 65536 ELSE hi) * 65536 + lo

---------------------------------------------------------------------------
(* Values crossing the binding.                                            *)

\* py::float_ and py::make_tuple objects.
PyFloat(x) == [py |-> "float", v |-> x]
PyTuple(a, b) == [py |-> "tuple", v |-> <<a, b>>]

EmptyMap == << >>

\* Outcomes of a call.
Returned(kind, value) == [kind |-> kind, value |-> value]
Thrown(what) == [kind |-> "runtime_error", what |-> what]
Aborted == [kind |-> "abort"]

NotInitialized == Thrown("VVISFEngine not initialized: " \o last_error_)

\* ValidationResult: the four public fields.
ValidationResultOf(valid, errs, warns) ==
    [is_valid |-> valid, errors |-> errs, warnings |-> warns, metadata |-> EmptyMap]

---------------------------------------------------------------------------
(* Inputs the host passes.                                                 *)

\* One pass, no inputs, a shader writing the constant colour (1,0,0,1).
RedDoc == "/*{\"INPUTS\":[],\"PASSES\":[{}]}*/ void main(){gl_FragColor=vec4(1.0,0.0,0.0,1.0);}"
\* The input name "a" declared twice.
DupDoc == "/*{\"INPUTS\":[{\"NAME\":\"a\",\"TYPE\":\"float\"},{\"NAME\":\"a\",\"TYPE\":\"float\"}]}*/ void main(){gl_FragColor=vec4(a);}"
\* A JSON header that is cut off.
TruncatedDoc == "/*{\"INPUTS\":["

IsfJsons == {RedDoc, DupDoc, TruncatedDoc}

\* width and height arguments: small values of either sign, and values whose
\* byte count width * height * 4 leaves the range of int.
Dims == (-1 .. MaxDim) \cup {2^29, 2^30, 2^30 + 1}

ParameterMaps == {EmptyMap, [time |-> PyFloat(1)]}
ParamNames == {"time", "resolution", "speed"}
ParamValues == {PyFloat(1), PyTuple(4, 4)}

\* create_texture arguments.
TextureDatas == {<< >>, <<255, 0, 0, 255>>}
TextureDims == 0 .. 1
TextureFormats == {"RGBA", "RGB"}

\* Addresses the converted `data` argument can live at (non-null).
Addrs == {4096, 8192}

\* "texture_" + std::to_string(address)
TextureId(addr) == "texture_" \o ToString(addr)

\* Ids the host may pass to destroy_texture: every id create_texture can
\* return, and one it never returns.
TextureIds == {TextureId(a) : a \in Addrs} \cup {"texture_0"}

---------------------------------------------------------------------------
(* ImageData and the vectors it holds.                                     *)

\* std::vector<uint8_t>(n, byte), n >= 0
VectorOf(n, byte) == [i \in 1 .. n |-> byte]

\* what() of the std::length_error that vector::resize / vector(n, v) throw
\* when the count exceeds max_size(); the text is the library's.
LengthErrorWhats == {"vector::_M_default_append", "vector"}

\* The int expression width * height * 4.  When a product leaves the range
\* of int the behaviour is undefined: the build either keeps the low 32
\* bits of the product or (built with overflow trapping) aborts.
ByteCounts(width, height) ==
    IF MulFits(width, height) /\ MulFits(width * height, 4)
    THEN {[trap |-> FALSE, n |-> width * height * 4]}
    ELSE {[trap |-> FALSE, n |-> MulWrap(MulWrap(width, height), 4)],
          [trap |-> TRUE, n |-> 0]}

\* ImageData(w, h, fmt) once data.resize(n) has succeeded: n zero bytes.
ImageDataOf(w, h, fmt, n) ==
    [width |-> w, height |-> h, data |-> VectorOf(n, 0), format |-> fmt]

\* The byte every element of the rendered image is set to.
FillByte == 255

---------------------------------------------------------------------------
(* The bodies of the try blocks: the set of things each can do.  An entry  *)
(* of kind "std::exception" is an exception the catch clause receives.     *)

StdException(what) == [kind |-> "std::exception", what |-> what]

\* Variant: the header is parsed, and a cut-off header raises.
ValidateIsfTryParsing(isf_json) ==
    IF isf_json = TruncatedDoc
    THEN {StdException("parse error")}
    ELSE {Returned("ValidationResult", ValidationResultOf(TRUE, << >>, << >>))}

ValidateIsfTry(isf_json) ==
    {Returned("ValidationResult", ValidationResultOf(TRUE, << >>, << >>))}

\* Variant: the image keeps the zero bytes of its constructor (no fill).
RenderShaderTryNoFill(isf_json, width, height, parameters) ==
    UNION {
        IF c.trap THEN {Aborted}
        ELSE IF c.n < 0 THEN {StdException(w) : w \in LengthErrorWhats}
        ELSE {Returned("ImageData", ImageDataOf(width, height, "RGBA", c.n))}
        : c \in ByteCounts(width, height)}

\* Variant: a negative width or height is refused.
RenderShaderTryNoNegative(isf_json, width, height, parameters) ==
    UNION {
        IF c.trap THEN {Aborted}
        ELSE IF c.n < 0 \/ width < 0 \/ height < 0
             THEN {StdException(w) : w \in LengthErrorWhats}
        ELSE {Returned("ImageData",
                [ImageDataOf(width, height, "RGBA", c.n)
                    EXCEPT !.data = VectorOf(c.n, FillByte)])}
        : c \in ByteCounts(width, height)}

\* An int converted to size_t is a count above max_size() when negative.
RenderShaderTry(isf_json, width, height, parameters) ==
    UNION {
        IF c.trap THEN {Aborted}
        ELSE IF c.n < 0 THEN {StdException(w) : w \in LengthErrorWhats}
        ELSE {Returned("ImageData",
                [ImageDataOf(width, height, "RGBA", c.n)
                    EXCEPT !.data = VectorOf(c.n, FillByte)])}
        : c \in ByteCounts(width, height)}

CreateTextureTry(data, width, height, format) ==
    {Returned("str", TextureId(a)) : a \in Addrs}

\* Variant: an id that is not held is refused.
DestroyTextureTryChecked(texture_id) ==
    IF handles[texture_id] = "held"
    THEN {Returned("void", << >>)}
    ELSE {StdException("ResourceError::NotFound")}

DestroyTextureTry(texture_id) == {Returned("void", << >>)}

\* Variant: a "time" set by the preceding set_parameter is reported back.
GetParametersTryStored(isf_json) ==
    {Returned("map",
        [time |-> IF call.op = "set_parameter" /\ call.param_name = "time"
                  THEN call.value ELSE PyFloat(0),
         resolution |-> PyTuple(512, 512)])}

GetParametersTry(isf_json) ==
    {Returned("map", [time |-> PyFloat(0), resolution |-> PyTuple(512, 512)])}

SetParameterTry(isf_json, param_name, value) == {Returned("void", << >>)}

\* catch (const std::exception& e) { throw std::runtime_error(prefix + e.what()); }
Rethrow(prefix, outcomes) ==
    {IF o.kind = "std::exception" THEN Thrown(prefix \o o.what) ELSE o : o \in outcomes}

\* catch (const std::exception& e) in validate_isf: a result carrying e.what()
CatchAsResult(outcomes) ==
    {IF o.kind = "std::exception"
     THEN Returned("ValidationResult", ValidationResultOf(FALSE, <<o.what>>, << >>))
     ELSE o : o \in outcomes}

\* if (!is_initialized_) throw ...; otherwise the try block
Guarded(outcomes) == IF ~is_initialized_ THEN {NotInitialized} ELSE outcomes

\* A call made by the host: it leaves the engine's fields as they are and
\* produces one of `outcomes`; an abort ends the process.
Call(c, outcomes) ==
    /\ alive
    /\ call' = c
    /\ \E o \in outcomes :
          /\ ret' = o
          /\ alive' = (o.kind /= "abort")

---------------------------------------------------------------------------
(* The engine.                                                             *)

\* VVISFEngine(): the try block only sets the flag.
Init ==
    /\ last_error_ = ""
    /\ is_initialized_ = TRUE
    /\ call = [op |-> "VVISFEngine"]
    /\ ret = Returned("void", << >>)
    /\ handles = [t \in TextureIds |-> "unknown"]
    /\ alive = TRUE

\* The shape of the state: the engine's two fields, the host's view.
TypeOK ==
    /\ last_error_ \in STRING
    /\ is_initialized_ \in BOOLEAN
    /\ call.op \in {"VVISFEngine", "validate_isf", "render_shader",
                    "create_texture", "destroy_texture", "get_parameters",
                    "set_parameter", "get_last_error", "is_initialized",
                    "reset_errors"}
    /\ ret.kind \in {"ValidationResult", "ImageData", "str", "void", "map",
                     "bool", "runtime_error", "abort"}
    /\ handles \in [TextureIds -> {"unknown", "held", "released"}]
    /\ alive \in BOOLEAN

validate_isf(isf_json) ==
    /\ Call([op |-> "validate_isf", isf_json |-> isf_json],
            Guarded(CatchAsResult(ValidateIsfTry(isf_json))))
    /\ UNCHANGED <<engine, handles>>

\* Variant: a failure's message is stored in the last-error slot.
render_shader_recording(isf_json, width, height, parameters) ==
    /\ Call([op |-> "render_shader", isf_json |-> isf_json, width |-> width,
             height |-> height, parameters |-> parameters],
            Guarded(Rethrow("Shader rendering failed: ",
                            RenderShaderTry(isf_json, width, height, parameters))))
    /\ last_error_' = IF ret'.kind = "runtime_error" THEN ret'.what ELSE last_error_
    /\ UNCHANGED <<is_initialized_, handles>>

render_shader(isf_json, width, height, parameters) ==
    /\ Call([op |-> "render_shader", isf_json |-> isf_json, width |-> width,
             height |-> height, parameters |-> parameters],
            Guarded(Rethrow("Shader rendering failed: ",
                            RenderShaderTry(isf_json, width, height, parameters))))
    /\ UNCHANGED <<engine, handles>>

\* The host notes the id it was handed.
create_texture(data, width, height, format) ==
    /\ Call([op |-> "create_texture", data |-> data, width |-> width,
             height |-> height, format |-> format],
            Guarded(Rethrow("Texture creation failed: ",
                            CreateTextureTry(data, width, height, format))))
    /\ handles' = IF ret'.kind = "str"
                  THEN [handles EXCEPT ![ret'.value] = "held"]
                  ELSE handles
    /\ UNCHANGED engine

\* The host notes the id it gave back; `was` is what it held the id as.
destroy_texture(texture_id) ==
    /\ Call([op |-> "destroy_texture", texture_id |-> texture_id,
             was |-> handles[texture_id]],
            Guarded(Rethrow("Texture destruction failed: ",
                            DestroyTextureTry(texture_id))))
    /\ handles' = IF ret'.kind = "void" /\ handles[texture_id] = "held"
                  THEN [handles EXCEPT ![texture_id] = "released"]
                  ELSE handles
    /\ UNCHANGED engine

\* `after` is the set_parameter call made just before this one, if any.
get_parameters(isf_json) ==
    /\ Call([op |-> "get_parameters", isf_json |-> isf_json,
             after |-> IF call.op = "set_parameter" THEN call ELSE [op |-> "other"]],
            Guarded(Rethrow("Parameter extraction failed: ",
                            GetParametersTry(isf_json))))
    /\ UNCHANGED <<engine, handles>>

set_parameter(isf_json, param_name, value) ==
    /\ Call([op |-> "set_parameter", isf_json |-> isf_json,
             param_name |-> param_name, value |-> value],
            Guarded(Rethrow("Parameter setting failed: ",
                            SetParameterTry(isf_json, param_name, value))))
    /\ UNCHANGED <<engine, handles>>

\* `after` is how the call made just before this one ended.
get_last_error ==
    /\ Call([op |-> "get_last_error", after |-> ret.kind],
            {Returned("str", last_error_)})
    /\ UNCHANGED <<engine, handles>>

is_initialized ==
    /\ Call([op |-> "is_initialized"], {Returned("bool", is_initialized_)})
    /\ UNCHANGED <<engine, handles>>

reset_errors ==
    /\ Call([op |-> "reset_errors"], {Returned("void", << >>)})
    /\ last_error_' = ""
    /\ UNCHANGED <<is_initialized_, handles>>

Next ==
    \/ \E j \in IsfJsons : validate_isf(j)
    \/ \E j \in IsfJsons, w \in Dims, h \in Dims, p \in ParameterMaps :
          render_shader(j, w, h, p)
    \/ \E d \in TextureDatas, w \in TextureDims, h \in TextureDims,
          f \in TextureFormats : create_texture(d, w, h, f)
    \/ \E t \in TextureIds : destroy_texture(t)
    \/ \E j \in IsfJsons : get_parameters(j)
    \/ \E j \in IsfJsons, n \in ParamNames, v \in ParamValues :
          set_parameter(j, n, v)
    \/ get_last_error
    \/ is_initialized
    \/ reset_errors

Spec == Init /\ [][Next]_vars

---------------------------------------------------------------------------
(* Properties.                                                             *)

IsRender == call.op = "render_shader"

\* width * height * 4 is computed without leaving the range of int.
ByteCountFits(width, height) ==
    MulFits(width, height) /\ MulFits(width * height, 4)

\* `data` has exactly width * height * 4 bytes.  A vector built from an int
\* count has fewer than 2^31 elements, so it cannot when that number is not
\* an int.
HasByteCount(data, width, height) ==
    ByteCountFits(width, height) /\ Len(data) = width * height * 4

AllBytes(data, byte) == \A i \in 1 .. Len(data) : data[i] = byte

\* `what` is `prefix` followed by the text of a library exception.
HasPrefix(what, prefix) == \E w \in LengthErrorWhats : what = prefix \o w

\* `text` contains `name`, in one of the wordings an error may use.
Mentions(text, name) ==
    \E pre \in {"", "duplicate input name: ", "duplicate input '"},
       post \in {"", "'"} : text = pre \o name \o post

\* The documents that are not well-formed ISF, and those that declare an
\* input name twice (with the name).
MalformedDocs == {TruncatedDoc}
DuplicateName(isf_json) == IF isf_json = DupDoc THEN "a" ELSE ""

\* C1: on an initialized engine validate_isf returns, for every isf_json,
\* well-formed or not, a ValidationResult with is_valid = true and empty
\* errors and warnings; it does not throw.
C1_ValidateAlwaysValid ==
    (call.op = "validate_isf" /\ is_initialized_) =>
        /\ ret.kind = "ValidationResult"
        /\ ret.value.is_valid = TRUE
        /\ ret.value.errors = << >>
        /\ ret.value.warnings = << >>

\* C1 witness: a cut-off document has been validated and found valid.
C1_Witness ==
    /\ call.op = "validate_isf"
    /\ call.isf_json = TruncatedDoc
    /\ ret.kind = "ValidationResult"
    /\ ret.value.is_valid

\* C2: for every malformed document validation does not throw and returns
\* a ValidationResult with is_valid = false and a non-empty errors sequence.
C2_MalformedRejected ==
    (call.op = "validate_isf" /\ call.isf_json \in MalformedDocs) =>
        /\ ret.kind = "ValidationResult"
        /\ ret.value.is_valid = FALSE
        /\ ret.value.errors /= << >>

\* C3: for every document declaring the same input name twice, validation
\* returns is_valid = false with an error that identifies the name.
C3_DuplicateInputRejected ==
    (call.op = "validate_isf" /\ DuplicateName(call.isf_json) /= "") =>
        /\ ret.kind = "ValidationResult"
        /\ ret.value.is_valid = FALSE
        /\ \E i \in DOMAIN ret.value.errors :
              Mentions(ret.value.errors[i], DuplicateName(call.isf_json))

\* The image render_shader is said to return: the arguments as width and
\* height, format "RGBA", width * height * 4 bytes, each 255.
WhiteImage(r, width, height) ==
    /\ r.kind = "ImageData"
    /\ r.value.width = width
    /\ r.value.height = height
    /\ r.value.format = "RGBA"
    /\ HasByteCount(r.value.data, width, height)
    /\ AllBytes(r.value.data, 255)

C5_RedScenario ==
    (IsRender /\ call.isf_json = RedDoc /\ call.width = 4 /\ call.height = 4) =>
        /\ ret.kind = "ImageData"
        /\ Len(ret.value.data) = 4 * 4 * 4
        /\ \A px \in 0 .. 15 :
              SubSeq(ret.value.data, 4 * px + 1, 4 * px + 4) = <<255, 0, 0, 255>>

\* `what` reports ResourceError::NotFound.
IsNotFound(what) ==
    \E pre \in {"", "Texture destruction failed: "} :
        what = pre \o "ResourceError::NotFound"

\* C6: destroying a handle obtained from create_texture a second time
\* yields the error ResourceError::NotFound, and never a crash.
C6_SecondDestroyNotFound ==
    (call.op = "destroy_texture" /\ call.was = "released") =>
        /\ ret.kind = "runtime_error"
        /\ IsNotFound(ret.what)

\* C7: on an initialized engine get_parameters returns, for every isf_json
\* and after any set_parameter calls, the mapping with exactly the keys
\* "time" (0.0) and "resolution" ((512, 512)).
C7_ParametersFixed ==
    (call.op = "get_parameters" /\ is_initialized_) =>
        /\ ret.kind = "map"
        /\ DOMAIN ret.value = {"time", "resolution"}
        /\ ret.value.time = PyFloat(0)
        /\ ret.value.resolution = PyTuple(512, 512)

\* C7 witness: get_parameters has answered right after "time" was set to
\* 1.0 for the same document.
C7_Witness ==
    /\ call.op = "get_parameters"
    /\ call.after.op = "set_parameter"
    /\ call.after.isf_json = call.isf_json
    /\ call.after.param_name = "time"
    /\ call.after.value = PyFloat(1)
    /\ ret.kind = "map"

\* C8: create_texture and destroy_texture, whatever their arguments (an id
\* never returned or already destroyed included), complete without error
\* on an initialized engine and leave the engine's fields (the only state
\* it has: no texture table) as they were.
C8_TexturesTouchNothing ==
    [][(call'.op \in {"create_texture", "destroy_texture"} /\ is_initialized_) =>
          /\ ret'.kind = (IF call'.op = "create_texture" THEN "str" ELSE "void")
          /\ engine' = engine]_vars

\* C8 witness: an id already given back has been destroyed again, and the
\* call returned.
C8_Witness ==
    /\ call.op = "destroy_texture"
    /\ call.was = "released"
    /\ ret.kind = "void"

\* C9: after construction and after any sequence of calls, failing ones
\* included, is_initialized() is true and get_last_error() is the empty
\* string; no call fails with "VVISFEngine not initialized".
C9_EngineStateConstant ==
    /\ is_initialized_ = TRUE
    /\ last_error_ = ""
    /\ ret /= NotInitialized
    /\ call.op = "is_initialized" => ret.value = TRUE
    /\ call.op = "get_last_error" => ret.value = ""

\* C9 witness: get_last_error has answered "" right after a call failed.
C9_Witness ==
    /\ call.op = "get_last_error"
    /\ call.after = "runtime_error"
    /\ ret.value = ""

\* What render_shader does when the byte count is an int: an image with
\* the arguments as fields and width * height * 4 bytes when
\* width * height >= 0, and otherwise an error starting with
\* "Shader rendering failed: ", no image, the engine's fields as they were.
RenderBySign(width, height) ==
    IF width * height >= 0
    THEN /\ ret.kind = "ImageData"
         /\ ret.value.width = width
         /\ ret.value.height = height
         /\ HasByteCount(ret.value.data, width, height)
    ELSE /\ ret.kind = "runtime_error"
         /\ HasPrefix(ret.what, "Shader rendering failed: ")
         /\ is_initialized_
         /\ last_error_ = ""

\* C10 as stated: for width and height whose product width * height does
\* not overflow, render_shader returns normally exactly when
\* width * height >= 0 and fails otherwise, as above.
C10_AsStated ==
    (IsRender /\ MulFits(call.width, call.height)) =>
        RenderBySign(call.width, call.height)

\* C10 amended: the same for width and height whose byte count
\* width * height * 4 does not overflow int.
C10_RenderBySign ==
    (IsRender /\ ByteCountFits(call.width, call.height)) =>
        RenderBySign(call.width, call.height)

\* C10 witness: a render with both arguments negative has returned an
\* image with negative fields and 4 bytes.
C10_Witness ==
    /\ IsRender
    /\ call.width = -1
    /\ call.height = -1
    /\ ret.kind = "ImageData"
    /\ ret.value.width = -1
    /\ Len(ret.value.data) = 4

====
